---- MODULE Spec2Model ----
(***************************************************************************)
(* Model of powerdetector.py: the debounced alarm state machine of         *)
(* monitor(), its sleep/sample/dispatch loop, the heartbeat deadline and   *)
(* the two alarm handlers (e-mail and buzzer).                             *)
(*                                                                         *)
(* Time is counted in seconds.  Voltages are counted in units of           *)
(* 1/10230 V, so that ADC_SCALE_TO_V = 1.8/1023 is the integer 18 and the  *)
(* comparison adcVal * ADC_SCALE_TO_V < alarmMinVoltage is exact.          *)
(***************************************************************************)
EXTENDS Integers, Sequences, FiniteSets, TLC

\* ---------------------------------------------------------------- bounds
MaxN == 3             \* largest --alarm_tri explored (from -1 on)
MaxPeriod == 2        \* largest --period explored (seconds)
MaxInfoPeriod == 2    \* largest --info_period explored (from -1 on)
MaxDuration == 1      \* largest --buzzer_duration explored
MaxSendTime == 1      \* longest time one e-mail trigger() takes
MaxTime == 8          \* the clock stops the exploration here

\* ------------------------------------------------------ program constants
INFO == 20            \* logging.INFO
WARNING == 30         \* logging.WARNING
ERROR == 40           \* logging.ERROR
CRITICAL == 50        \* logging.CRITICAL
FastRetry == 1        \* readPeriod = 1
ScaleNum == 18        \* ADC_SCALE_TO_V = 1.8 / 1023, in units of 1/10230 V
DefaultAlarmMin == 7161      \* --alarm_min default 0.7 V, in units of 1/10230 V
PatternTime == 1      \* one pass of the tone pattern: 0.4 s + 0.6 s

\* raw ADC samples explored: 397 is below both thresholds, 400 (0.7038 V) is
\* above the default threshold and exactly on the other one, 401 is above both
AdcVals == {397, 400, 401}
AlarmMins == {DefaultAlarmMin, 400 * ScaleNum}

\* variant: the buzzer is put before the e-mail handler
alarmHandlersSwapped == <<"buzzer", "email">>

\* the handler list built by __main__
alarmHandlers == <<"email", "buzzer">>

VARIABLES
    args,                        \* the parsed command line
    mainAlarmNTriggers,          \* __main__'s clamped alarmNTriggers
    alarmNTriggers,              \* monitor()'s parameters
    readPeriodState,
    alarmMinVoltage,
    infoPeriod,
    numberOfAlarmsLeftToTrigger, \* monitor()'s locals
    alarmState,
    readPeriod,
    nextInfoTrigger,
    adcVal,
    statusMsg,
    pc,                          \* position in monitor()
    hidx,                        \* position in "for handler in alarmHandlers"
    hpc,                         \* position in BuzzerAlarmHandler.trigger
    endTime,                     \* BuzzerAlarmHandler.trigger's local
    toneActive,                  \* soft tone created on the pin and not stopped
    now,                         \* time.time()
    calls,                       \* history: trigger() calls of this cycle
    caught,                      \* history: e-mail failures logged this cycle
    crashedBy,                   \* history: what ended or stalled monitor()
    preState,                    \* history: alarmState when the sample was taken
    edge,                        \* history: transition made by this cycle
    run,                         \* history: consecutive samples, this one
                                 \*   included, driving towards the other state
    lastHb,                      \* history: time of the last INFO dispatch
    hbGap,                       \* history: time between the last two
    hbCount                      \* history: a heartbeat was dispatched

vars == <<args, mainAlarmNTriggers, alarmNTriggers, readPeriodState,
          alarmMinVoltage, infoPeriod, numberOfAlarmsLeftToTrigger,
          alarmState, readPeriod, nextInfoTrigger, adcVal, statusMsg, pc,
          hidx, hpc, endTime, toneActive, now, calls, caught, crashedBy,
          preState, edge, run, lastHb, hbGap, hbCount>>

confVars == <<args, mainAlarmNTriggers, alarmNTriggers, readPeriodState,
              alarmMinVoltage, infoPeriod>>
histVars == <<preState, edge, run>>
hbVars == <<lastHb, hbGap, hbCount>>

\* -------------------------------------------------------- pure functions
\* adcValVolts = adcVal * ADC_SCALE_TO_V
Volts(raw) == raw * ScaleNum

\* adcValVolts < alarmMinVoltage
IsBad(volts, minVolts) == volts < minVolts

\* variant: the alarm fires one reading early (<= 1 for < 1)
TriggersAlarmEarly(left) == left <= 1

\* numberOfAlarmsLeftToTrigger < 1
TriggersAlarm(left) == left < 1

\* variant: recovery needs one reading more (> for >=)
RecoversLate(left, n) == left > n

\* numberOfAlarmsLeftToTrigger >= alarmNTriggers
Recovers(left, n) == left >= n

\* variant: a bad reading in ALARM re-arms to n, as the good one in OK does
NextCounterResetToN(state, bad, left, n) ==
    IF state = "OK"
    THEN IF bad THEN left - 1 ELSE n
    ELSE IF bad THEN n ELSE left + 1

\* the counter after a sample
NextCounter(state, bad, left, n) ==
    IF state = "OK"
    THEN IF bad THEN left - 1 ELSE n
    ELSE IF bad THEN 0 ELSE left + 1

\* the state after a sample
NextState(state, bad, left, n) ==
    IF state = "OK"
    THEN IF bad /\ TriggersAlarm(NextCounter(state, bad, left, n))
         THEN "ALARM" ELSE "OK"
    ELSE IF ~bad /\ Recovers(NextCounter(state, bad, left, n), n)
         THEN "OK" ELSE "ALARM"

\* variant: the alarm is dispatched on every sample that leaves the state ALARM
AlarmDispatchWheneverAlarm(old, new) == new = "ALARM"

\* the CRITICAL dispatch sits inside the branch that makes the OK->ALARM edge
AlarmDispatchNeeded(old, new) == old = "OK" /\ new = "ALARM"

\* variant: the buzzer sounds from INFO on
BuzzerSoundsFromInfo(severity) == severity >= INFO

\* if (severity >= logging.ERROR)
BuzzerSounds(severity) == severity >= ERROR

\* the steps of EMailAlarmHandler.trigger that can raise
EMailSteps == {"connect", "ehlo", "starttls", "login", "format", "sendmail",
               "quit"}

\* variant: server.quit() sits after the try block
CaughtByExceptNotQuit(step) == step \in EMailSteps \ {"quit"}

\* try: ... except Exception: every step is inside the try block
CaughtByExcept(step) == step \in EMailSteps

\* variant: the fast retry is forced on every bad reading, also in ALARM
NextReadPeriodAnyBad(state, bad, period) ==
    IF bad THEN FastRetry ELSE period

\* the read period after a sample
NextReadPeriod(state, bad, period) ==
    IF state = "OK" /\ bad THEN FastRetry ELSE period

\* variant: the heartbeat is due already at the deadline (>= for >)
HeartbeatDueAtDeadline(t, deadline) == t >= deadline

\* time.time() > nextInfoTrigger
HeartbeatDue(t, deadline) == t > deadline

\* variant: the deadline is advanced from the old deadline, not from the clock
NextDeadlineFromOld(t, deadline, interval) == deadline + interval

\* nextInfoTrigger = time.time() + infoPeriod
NextDeadline(t, deadline, interval) == t + interval

\* the "State: ... (number of alarms to trigger: ...)" message
FormatStatus(state, raw, left) ==
    [kind |-> "status", state |-> state, adcVal |-> raw,
     volts |-> Volts(raw), counter |-> left]

\* the "Going to read from ADC ..." message
FormatConfig(period, minVolts, n) ==
    [kind |-> "config", period |-> period, minVolts |-> minVolts, n |-> n]

\* __main__: alarmNTriggers = 1; if args.alarm_tri > 1: alarmNTriggers = ...
ClampTriggers(tri) == IF tri > 1 THEN tri ELSE 1

\* __main__: the trigger count handed to monitor()
PassedTriggers(a) == a.alarm_tri

\* variant: the dispatch loop stops after the first handler
DispatchDoneAfterFirst(i) == i >= 1

\* the for loop over alarmHandlers is finished after handler i
DispatchDone(i) == i >= Len(alarmHandlers)

\* severity of the notification dispatched at a position of monitor()
Severity(p) == IF p = "alarm" THEN CRITICAL ELSE INFO

\* where monitor() goes on after a dispatch loop
AfterDispatch(p) ==
    CASE p = "startup" -> "init"
      [] p = "alarm" -> "hbcheck"
      [] p = "hb" -> "hbset"

\* ------------------------------------------------------------------ Init
ArgSet == [alarm_tri : -1..MaxN,
           period : 1..MaxPeriod,
           alarm_min : AlarmMins,
           info_period : -1..MaxInfoPeriod,
           buzzer_duration : 0..MaxDuration]

Init ==
    /\ args \in ArgSet
    /\ mainAlarmNTriggers = ClampTriggers(args.alarm_tri)
    /\ alarmNTriggers = PassedTriggers(args)
    /\ readPeriodState = args.period
    /\ alarmMinVoltage = args.alarm_min
    /\ infoPeriod = args.info_period
    /\ numberOfAlarmsLeftToTrigger = 0
    /\ alarmState = "UNBOUND"
    /\ readPeriod = 0
    /\ nextInfoTrigger = 0
    /\ adcVal = 0
    /\ statusMsg = FormatConfig(readPeriodState, alarmMinVoltage, alarmNTriggers)
    /\ pc = "startup"
    /\ hidx = 1
    /\ hpc = "idle"
    /\ endTime = 0
    /\ toneActive = FALSE
    /\ now = 0
    /\ calls = << >>
    /\ caught = 0
    /\ crashedBy = "none"
    /\ preState = "none"
    /\ edge = "none"
    /\ run = 0
    /\ lastHb = 0
    /\ hbGap = 0
    /\ hbCount = 0

\* --------------------------------------------------------------- dispatch
Dispatching == pc \in {"startup", "alarm", "hb"}

\* the message handed to trigger() at this position
CurrentMsg ==
    IF pc = "alarm"
    THEN FormatStatus(alarmState, adcVal, numberOfAlarmsLeftToTrigger)
    ELSE statusMsg

Call(h) == [handler |-> h, severity |-> Severity(pc), msg |-> CurrentMsg]

\* trigger() returned: next handler, or on with monitor()
HandlerReturns ==
    IF DispatchDone(hidx)
    THEN pc' = AfterDispatch(pc) /\ hidx' = 1
    ELSE pc' = pc /\ hidx' = hidx + 1

monitorLocals == <<numberOfAlarmsLeftToTrigger, alarmState, readPeriod,
                   nextInfoTrigger, adcVal>>

\* EMailAlarmHandler.trigger: the message is sent
EMailTrigger ==
    /\ Dispatching /\ hpc = "idle" /\ alarmHandlers[hidx] = "email"
    /\ \E d \in 0..MaxSendTime :
          /\ now + d <= MaxTime
          /\ now' = now + d
    /\ calls' = Append(calls, Call("email"))
    /\ statusMsg' = CurrentMsg
    /\ HandlerReturns
    /\ UNCHANGED <<confVars, monitorLocals, hpc, endTime, toneActive, caught,
                   crashedBy, histVars, hbVars>>

\* EMailAlarmHandler.trigger: a step raises, the except clause logs it
EMailTriggerFails ==
    /\ Dispatching /\ hpc = "idle" /\ alarmHandlers[hidx] = "email"
    /\ \E d \in 0..MaxSendTime :
          /\ now + d <= MaxTime
          /\ now' = now + d
    /\ calls' = Append(calls, Call("email"))
    /\ statusMsg' = CurrentMsg
    /\ \E step \in EMailSteps :
          IF CaughtByExcept(step)
          THEN /\ caught' = caught + 1
               /\ HandlerReturns
               /\ UNCHANGED crashedBy
          ELSE /\ pc' = "crashed"
               /\ crashedBy' = "email"
               /\ UNCHANGED <<hidx, caught>>
    /\ UNCHANGED <<confVars, monitorLocals, hpc, endTime, toneActive,
                   histVars, hbVars>>

\* variant: the blocked transport times out and the failure is logged
EMailTriggerTimesOut ==
    /\ Dispatching /\ hpc = "idle" /\ alarmHandlers[hidx] = "email"
    /\ calls' = Append(calls, Call("email"))
    /\ statusMsg' = CurrentMsg
    /\ crashedBy' = "emailHang"
    /\ caught' = caught + 1
    /\ HandlerReturns
    /\ UNCHANGED <<confVars, monitorLocals, hpc, endTime, toneActive,
                   now, histVars, hbVars>>

\* EMailAlarmHandler.trigger: the transport blocks for ever (no timeout)
EMailTriggerHangs ==
    /\ Dispatching /\ hpc = "idle" /\ alarmHandlers[hidx] = "email"
    /\ calls' = Append(calls, Call("email"))
    /\ statusMsg' = CurrentMsg
    /\ pc' = "hung"
    /\ crashedBy' = "emailHang"
    /\ UNCHANGED <<confVars, monitorLocals, hidx, hpc, endTime, toneActive,
                   now, caught, histVars, hbVars>>

\* BuzzerAlarmHandler.trigger: entry and the severity test
BuzzerTrigger ==
    /\ Dispatching /\ hpc = "idle" /\ alarmHandlers[hidx] = "buzzer"
    /\ calls' = Append(calls, Call("buzzer"))
    /\ statusMsg' = CurrentMsg
    /\ IF BuzzerSounds(Severity(pc))
       THEN hpc' = "create" /\ UNCHANGED <<pc, hidx>>
       ELSE hpc' = "idle" /\ HandlerReturns
    /\ UNCHANGED <<confVars, monitorLocals, endTime, toneActive, now, caught,
                   crashedBy, histVars, hbVars>>

\* softToneCreate, startTime, endTime
BuzzerCreate ==
    /\ Dispatching /\ hpc = "create"
    /\ toneActive' = TRUE
    /\ endTime' = now + args.buzzer_duration
    /\ hpc' = "loop"
    /\ UNCHANGED <<confVars, monitorLocals, statusMsg, pc, hidx, now, calls,
                   caught, crashedBy, histVars, hbVars>>

\* one pass of the while loop: both tones written and slept
BuzzerLoop ==
    /\ Dispatching /\ hpc = "loop"
    /\ now < endTime
    /\ now + PatternTime <= MaxTime
    /\ now' = now + PatternTime
    /\ UNCHANGED <<confVars, monitorLocals, statusMsg, pc, hidx, hpc, endTime,
                   toneActive, calls, caught, crashedBy, histVars, hbVars>>

\* the while loop ends: softToneStop, trigger() returns
BuzzerStop ==
    /\ Dispatching /\ hpc = "loop"
    /\ ~(now < endTime)
    /\ toneActive' = FALSE
    /\ endTime' = 0
    /\ hpc' = "idle"
    /\ HandlerReturns
    /\ UNCHANGED <<confVars, monitorLocals, statusMsg, now, calls, caught,
                   crashedBy, histVars, hbVars>>

\* a wiringpi call or the sleep raises: nothing catches it up to __main__
BuzzerFails ==
    /\ Dispatching /\ hpc \in {"create", "loop"}
    /\ pc' = "crashed"
    /\ crashedBy' = "buzzer"
    /\ UNCHANGED <<confVars, monitorLocals, statusMsg, hidx, hpc, endTime,
                   toneActive, now, calls, caught, histVars, hbVars>>

\* ---------------------------------------------------------------- monitor
\* variant: the first deadline is the interval alone, the clock is left out
MonitorInitNoClock ==
    /\ pc = "init"
    /\ numberOfAlarmsLeftToTrigger' = alarmNTriggers
    /\ alarmState' = "OK"
    /\ readPeriod' = readPeriodState
    /\ nextInfoTrigger' = infoPeriod
    /\ lastHb' = now
    /\ pc' = "sleep"
    /\ UNCHANGED <<confVars, adcVal, statusMsg, hidx, hpc, endTime, toneActive,
                   now, calls, caught, crashedBy, histVars, hbGap, hbCount>>

\* lines 110-125: the locals, the first heartbeat deadline
MonitorInit ==
    /\ pc = "init"
    /\ numberOfAlarmsLeftToTrigger' = alarmNTriggers
    /\ alarmState' = "OK"
    /\ readPeriod' = readPeriodState
    /\ nextInfoTrigger' = now + infoPeriod
    /\ lastHb' = now
    /\ pc' = "sleep"
    /\ UNCHANGED <<confVars, adcVal, statusMsg, hidx, hpc, endTime, toneActive,
                   now, calls, caught, crashedBy, histVars, hbGap, hbCount>>

\* time.sleep(readPeriod); readPeriod = readPeriodState
Sleep ==
    /\ pc = "sleep"
    /\ now + readPeriod <= MaxTime
    /\ now' = now + readPeriod
    /\ readPeriod' = readPeriodState
    /\ calls' = << >>
    /\ caught' = 0
    /\ pc' = "read"
    /\ UNCHANGED <<confVars, numberOfAlarmsLeftToTrigger, alarmState,
                   nextInfoTrigger, adcVal, statusMsg, hidx, hpc, endTime,
                   toneActive, crashedBy, histVars, hbVars>>

\* adcVal = wpi.analogRead(adcNumber); statusMsg = ...
Read ==
    /\ pc = "read"
    /\ \E raw \in AdcVals : adcVal' = raw
    /\ statusMsg' = FormatStatus(alarmState, adcVal', numberOfAlarmsLeftToTrigger)
    /\ pc' = "update"
    /\ UNCHANGED <<confVars, numberOfAlarmsLeftToTrigger, alarmState, readPeriod,
                   nextInfoTrigger, hidx, hpc, endTime, toneActive, now, calls,
                   caught, crashedBy, histVars, hbVars>>

\* variant: the failed read is swallowed and the old sample is used again
ReadFailsSwallowed ==
    /\ pc = "read"
    /\ pc' = "update"
    /\ crashedBy' = "analogRead"
    /\ UNCHANGED <<confVars, monitorLocals, statusMsg, hidx, hpc, endTime,
                   toneActive, now, calls, caught, histVars, hbVars>>

\* wpi.analogRead raises: nothing catches it
ReadFails ==
    /\ pc = "read"
    /\ pc' = "crashed"
    /\ crashedBy' = "analogRead"
    /\ UNCHANGED <<confVars, monitorLocals, statusMsg, hidx, hpc, endTime,
                   toneActive, now, calls, caught, histVars, hbVars>>

\* lines 134-156: the state machine, up to the dispatch of the alarm
Update ==
    /\ pc = "update"
    /\ LET bad == IsBad(Volts(adcVal), alarmMinVoltage)
           left == NextCounter(alarmState, bad, numberOfAlarmsLeftToTrigger,
                               alarmNTriggers)
           state == NextState(alarmState, bad, numberOfAlarmsLeftToTrigger,
                              alarmNTriggers)
           driving == (alarmState = "OK") = bad
       IN /\ numberOfAlarmsLeftToTrigger' = left
          /\ alarmState' = state
          /\ readPeriod' = NextReadPeriod(alarmState, bad, readPeriod)
          /\ pc' = IF AlarmDispatchNeeded(alarmState, state)
                   THEN "alarm" ELSE "hbcheck"
          /\ preState' = alarmState
          /\ edge' = IF state = alarmState THEN "none"
                     ELSE IF state = "ALARM" THEN "toAlarm" ELSE "toOK"
          /\ run' = IF driving
                    THEN (IF edge = "none" THEN run ELSE 0) + 1
                    ELSE 0
    /\ UNCHANGED <<confVars, nextInfoTrigger, adcVal, statusMsg, hidx, hpc,
                   endTime, toneActive, now, calls, caught, crashedBy, hbVars>>

\* line 159: the heartbeat test
HeartbeatCheck ==
    /\ pc = "hbcheck"
    /\ IF HeartbeatDue(now, nextInfoTrigger)
       THEN /\ pc' = "hb"
            /\ hbGap' = now - lastHb
            /\ lastHb' = now
            /\ hbCount' = 1
       ELSE /\ pc' = "sleep"
            /\ UNCHANGED hbVars
    /\ UNCHANGED <<confVars, monitorLocals, statusMsg, hidx, hpc, endTime,
                   toneActive, now, calls, caught, crashedBy, histVars>>

\* line 162: the heartbeat deadline is recomputed
HeartbeatSet ==
    /\ pc = "hbset"
    /\ nextInfoTrigger' = NextDeadline(now, nextInfoTrigger, infoPeriod)
    /\ pc' = "sleep"
    /\ UNCHANGED <<confVars, numberOfAlarmsLeftToTrigger, alarmState, readPeriod,
                   adcVal, statusMsg, hidx, hpc, endTime, toneActive, now, calls,
                   caught, crashedBy, histVars, hbVars>>

Next ==
    \/ EMailTrigger
    \/ EMailTriggerFails
    \/ EMailTriggerHangs
    \/ BuzzerTrigger
    \/ BuzzerCreate
    \/ BuzzerLoop
    \/ BuzzerStop
    \/ BuzzerFails
    \/ MonitorInit
    \/ Sleep
    \/ Read
    \/ ReadFails
    \/ Update
    \/ HeartbeatCheck
    \/ HeartbeatSet

Spec == Init /\ [][Next]_vars

InLoop == pc \in {"sleep", "read", "update", "alarm", "hbcheck", "hb", "hbset"}

TypeOK ==
    /\ pc \in {"startup", "init", "sleep", "read", "update", "alarm",
               "hbcheck", "hb", "hbset", "crashed", "hung"}
    /\ hidx \in 1..Len(alarmHandlers)
    /\ hpc \in {"idle", "create", "loop"}
    /\ now \in 0..MaxTime
    /\ alarmState \in {"UNBOUND", "OK", "ALARM"}
    /\ Len(calls) <= 2 * Len(alarmHandlers)

\* ------------------------------------------------------------ properties
\* trigger() calls of this cycle received by handler h with severity sev
CallsTo(h, sev) ==
    Cardinality({i \in DOMAIN calls :
                    calls[i].handler = h /\ calls[i].severity = sev})

Handlers == {alarmHandlers[i] : i \in DOMAIN alarmHandlers}

\* the sample of this cycle has been through the state machine
Sampled == pc \in {"alarm", "hbcheck", "hb", "hbset", "sleep"}
              /\ preState # "none"

\* the dispatch of the alarm of this cycle is over
AlarmDispatched ==
    \/ pc \in {"hbcheck", "hb", "hbset", "sleep"}
    \/ pc = "crashed" /\ crashedBy = "buzzer"

\* C1: for N >= 1, from OK and fully armed, the state becomes ALARM exactly
\* on the N-th consecutive below-threshold reading, never earlier or later:
\* while OK the counter is N minus the length of the current run of bad
\* readings (so a good reading re-arms it to N) and the run is shorter than
\* N; the sample that makes the OK->ALARM edge is the N-th of its run.
C1_AlarmOnNthConsecutiveBad ==
    (alarmNTriggers >= 1 /\ Sampled) =>
        /\ (alarmState = "OK" /\ edge = "none") =>
              /\ run < alarmNTriggers
              /\ numberOfAlarmsLeftToTrigger = alarmNTriggers - run
        /\ edge = "toAlarm" => (preState = "OK" /\ run = alarmNTriggers)
        /\ (preState = "OK" /\ run = alarmNTriggers) => alarmState = "ALARM"

C1_Witness ==
    /\ Sampled /\ alarmNTriggers = 3 /\ edge = "toAlarm" /\ run = 3
    /\ now > 3

\* C2: for N >= 1, once in ALARM the state returns to OK exactly on the
\* N-th consecutive reading at or above the threshold (a reading equal to
\* the threshold is good): while ALARM the counter is the length of the
\* current run of good readings (a bad reading resets it to 0) and is below
\* N; the sample that makes the ALARM->OK edge is the N-th of its run.
C2_RecoveryOnNthConsecutiveGood ==
    (alarmNTriggers >= 1 /\ Sampled) =>
        /\ (alarmState = "ALARM" /\ edge = "none") =>
              /\ run < alarmNTriggers
              /\ numberOfAlarmsLeftToTrigger = run
        /\ (alarmState = "ALARM" /\ edge = "toAlarm") =>
              numberOfAlarmsLeftToTrigger = 0
        /\ edge = "toOK" => (preState = "ALARM" /\ run = alarmNTriggers)
        /\ (preState = "ALARM" /\ run = alarmNTriggers) => alarmState = "OK"
        /\ (preState = "ALARM" /\ Volts(adcVal) >= alarmMinVoltage) => run >= 1

C2_Witness ==
    /\ Sampled /\ alarmNTriggers = 2 /\ edge = "toOK" /\ run = 2
    /\ Volts(adcVal) = alarmMinVoltage

\* C3: on the sample that makes the OK->ALARM edge every handler receives
\* exactly one trigger() call with severity CRITICAL; on any other sample,
\* the one that makes the ALARM->OK edge included, no handler receives a
\* call with severity CRITICAL (or any severity other than INFO).
C3_OneCriticalOnAlarmEdgeOnly ==
    /\ \A h \in Handlers : CallsTo(h, CRITICAL) <= 1
    /\ (edge = "toAlarm" /\ AlarmDispatched) =>
           \A h \in Handlers : CallsTo(h, CRITICAL) = 1
    /\ (\E i \in DOMAIN calls : calls[i].severity # INFO) =>
           (edge = "toAlarm" /\ pc \notin {"read", "update"})

C3_Witness ==
    /\ alarmNTriggers = 1 /\ edge = "toAlarm" /\ pc = "hbcheck" /\ run = 1
    /\ \A h \in Handlers : CallsTo(h, CRITICAL) = 1

\* C4: a failure inside a handler's trigger() never stops the monitor loop.
C4_HandlerFailureNeverStopsLoop ==
    ~(pc = "crashed" /\ crashedBy = "buzzer")

\* C5: in every state of the monitor loop the debounce counter lies in
\* [0, alarmNTriggers].
C5_CounterInRange ==
    InLoop => numberOfAlarmsLeftToTrigger \in 0..alarmNTriggers

\* C6: the monitor loop is never entered, and never runs, with a trigger
\* count below 1.
C6_LoopNeverRunsBelowOne ==
    InLoop => alarmNTriggers >= 1

\* C7: after a sample the poll period for the next sleep is the fast-retry
\* value exactly when the reading was below the threshold and the state,
\* when it was taken, was OK, and the steady-state period otherwise; right
\* after each sleep the period is the steady-state one again.
C7_PollPeriod ==
    /\ pc = "read" => readPeriod = readPeriodState
    /\ Sampled =>
          readPeriod = IF preState = "OK" /\ Volts(adcVal) < alarmMinVoltage
                       THEN FastRetry ELSE readPeriodState

C7_Witness ==
    /\ pc = "sleep" /\ preState = "OK" /\ edge = "toAlarm"
    /\ readPeriodState = 2 /\ readPeriod = FastRetry

C9_DeadlineAdvances ==
    [][/\ pc = "hbset" => nextInfoTrigger' > nextInfoTrigger
       /\ (nextInfoTrigger' # nextInfoTrigger /\ pc # "init") =>
              /\ pc = "hbset"
              /\ \A h \in Handlers : CallsTo(h, INFO) = 1]_vars

C9_Witness ==
    /\ pc = "sleep" /\ hbCount = 1 /\ infoPeriod = -1
    /\ nextInfoTrigger > lastHb + infoPeriod

\* C10: the state and counter in every heartbeat INFO message equal the
\* monitor's alarmState and numberOfAlarmsLeftToTrigger at the dispatch.
C10_HeartbeatCarriesCurrentState ==
    \A i \in DOMAIN calls :
        (calls[i].severity = INFO /\ calls[i].msg.kind = "status") =>
            /\ calls[i].msg.state = alarmState
            /\ calls[i].msg.counter = numberOfAlarmsLeftToTrigger

\* C11: whenever a soft tone was created on the pin it is stopped before
\* BuzzerAlarmHandler.trigger() is left, also when a step of the pattern
\* fails: a tone is active only inside trigger()'s tone loop (stated for
\* the trigger counts >= 1).
C11_ToneStoppedOnExit ==
    (alarmNTriggers >= 1 /\ toneActive) => (Dispatching /\ hpc = "loop")

\* C12: a failure at any step of EMailAlarmHandler.trigger() never escapes:
\* it is caught and logged, trigger() returns to the dispatch loop (next
\* handler, or on with monitor()), and alarmState, the counter, the poll
\* period and the heartbeat deadline are left as they were.
C12_EMailFailureContained ==
    [][/\ crashedBy' # "email"
       /\ caught' > caught =>
             /\ UNCHANGED <<alarmState, numberOfAlarmsLeftToTrigger,
                            readPeriod, nextInfoTrigger>>
             /\ Len(calls') = Len(calls) + 1
             /\ calls'[Len(calls')].handler = "email"
             /\ pc' \notin {"crashed", "hung"}
             /\ \/ pc' = pc /\ hidx' = hidx + 1
                \/ pc' = AfterDispatch(pc) /\ hidx' = 1]_vars

C12_Witness ==
    /\ pc = "hbcheck" /\ edge = "toAlarm" /\ caught = 1
    /\ CallsTo("email", CRITICAL) = 1 /\ CallsTo("buzzer", CRITICAL) = 1

\* the calls of the startup dispatch: one INFO with the configuration
\* message for every handler, in list order
StartupCalls ==
    /\ Len(calls) = Len(alarmHandlers)
    /\ \A i \in DOMAIN calls :
          /\ calls[i].handler = alarmHandlers[i]
          /\ calls[i].severity = INFO
          /\ calls[i].msg = FormatConfig(readPeriodState, alarmMinVoltage,
                                         alarmNTriggers)

\* C13: at startup monitor() dispatches exactly one INFO with the
\* configuration to every handler before the first sleep and the first
\* sample, then sets the first deadline to the clock plus infoPeriod; the
\* initial state is OK with the counter equal to the trigger count.
C13_StartupNotification ==
    /\ pc \in {"startup", "init"} =>
          (adcVal = 0 /\ alarmState = "UNBOUND" /\ preState = "none")
    /\ pc = "init" => StartupCalls
    /\ (pc = "sleep" /\ preState = "none") =>
          /\ StartupCalls
          /\ adcVal = 0
          /\ nextInfoTrigger = now + infoPeriod
          /\ alarmState = "OK"
          /\ numberOfAlarmsLeftToTrigger = alarmNTriggers
          /\ readPeriod = readPeriodState

C13_Witness ==
    /\ pc = "sleep" /\ preState = "none" /\ StartupCalls
    /\ now = 1 /\ infoPeriod = 2 /\ nextInfoTrigger = 3 /\ alarmNTriggers = 3

\* C14: a call of the buzzer's trigger() with a severity below ERROR (INFO,
\* WARNING) creates, writes and stops no tone and takes no time; only a
\* severity >= ERROR starts the tone pattern.
C14_BuzzerSilentBelowError ==
    [][/\ ~BuzzerSounds(INFO) /\ ~BuzzerSounds(WARNING)
       /\ BuzzerSounds(ERROR) /\ BuzzerSounds(CRITICAL)
       /\ (hpc' # "idle" \/ toneActive') =>
             /\ Len(calls') > 0
             /\ calls'[Len(calls')].handler = "buzzer"
             /\ calls'[Len(calls')].severity >= ERROR
       /\ (/\ Len(calls') = Len(calls) + 1
           /\ calls'[Len(calls')].handler = "buzzer"
           /\ calls'[Len(calls')].severity < ERROR) =>
             /\ hpc' = "idle" /\ UNCHANGED <<toneActive, endTime, now>>
             /\ ~toneActive]_vars

C14_Witness ==
    /\ pc = "hbset" /\ ~toneActive /\ hpc = "idle"
    /\ calls[Len(calls)].handler = "buzzer"
    /\ calls[Len(calls)].severity = INFO
    /\ calls[Len(calls)].msg.kind = "status"

\* C15: a CRITICAL is dispatched only on the sample that makes the OK->ALARM
\* edge: every CRITICAL call belongs to a cycle whose sample was taken in OK
\* and left the state ALARM, so a sample taken in ALARM never dispatches one
\* and the state has been OK again between two CRITICALs to a handler.
C15_NoCriticalWhileAlarm ==
    [][\A i \in DOMAIN calls' :
          calls'[i].severity = CRITICAL =>
             /\ preState' = "OK" /\ alarmState' = "ALARM"
             /\ edge' = "toAlarm"
             /\ pc' \in {"alarm", "hbcheck", "hb", "hbset", "sleep",
                         "crashed", "hung"}]_vars

C15_Witness ==
    /\ pc = "sleep" /\ preState = "ALARM" /\ alarmState = "ALARM"
    /\ Volts(adcVal) < alarmMinVoltage
    /\ Len(calls) = 2 /\ \A h \in Handlers : CallsTo(h, CRITICAL) = 0

\* C16: the CRITICAL message reports state ALARM, the reading that made the
\* edge and the counter after the transition, which is 0.
C16_CriticalCarriesPostTransition ==
    \A i \in DOMAIN calls :
        calls[i].severity = CRITICAL =>
            /\ calls[i].msg.state = "ALARM"
            /\ calls[i].msg.adcVal = adcVal
            /\ calls[i].msg.counter = numberOfAlarmsLeftToTrigger
            /\ calls[i].msg.counter = 0

\* the steps of a cycle, in the order of the loop body
CycleOrder(p, q) ==
    CASE p = "startup" -> q \in {"startup", "init", "hung"}
      [] p = "init" -> q = "sleep"
      [] p = "sleep" -> q = "read"
      [] p = "read" -> q \in {"update", "crashed"}
      [] p = "update" -> q \in {"alarm", "hbcheck"}
      [] p = "alarm" -> q \in {"alarm", "hbcheck", "crashed", "hung"}
      [] p = "hbcheck" -> q \in {"hb", "sleep"}
      [] p = "hb" -> q \in {"hb", "hbset", "hung"}
      [] p = "hbset" -> q = "sleep"
      [] OTHER -> FALSE

\* C17: a cycle runs sleep, period reset, sample, state machine, CRITICAL
\* dispatch, heartbeat test in this order; every handler receives the
\* CRITICAL before any receives the heartbeat INFO, the e-mail handler is
\* called before the buzzer, and the deadline is tested only when the alarm
\* dispatch, the buzzer's pattern included, is over.
C17_CycleOrder ==
    [][/\ CycleOrder(pc, pc')
       /\ pc = "sleep" => (pc' = "read" /\ readPeriod' = readPeriodState)
       /\ \A i \in DOMAIN calls' :
             /\ calls'[i].handler = (IF i % 2 = 1 THEN "email" ELSE "buzzer")
             /\ \A j \in DOMAIN calls' :
                   (i < j /\ calls'[i].severity = INFO) =>
                       calls'[j].severity = INFO
       /\ pc' \in {"hbcheck", "hb", "hbset"} =>
             /\ hpc' = "idle" /\ ~toneActive'
             /\ edge' = "toAlarm" =>
                   \A h \in Handlers : CallsTo(h, CRITICAL)' = 1]_vars

C17_Witness ==
    /\ pc = "hbset" /\ Len(calls) = 4 /\ args.buzzer_duration = 1
    /\ calls[1].handler = "email" /\ calls[1].severity = CRITICAL
    /\ calls[2].handler = "buzzer" /\ calls[2].severity = CRITICAL
    /\ calls[3].handler = "email" /\ calls[3].severity = INFO
    /\ calls[4].handler = "buzzer" /\ calls[4].severity = INFO

\* C18: when EMailAlarmHandler.trigger() never returns, nothing happens any
\* more: no later handler is called for that notification (no buzzer for
\* that alarm), no sample is read, no heartbeat is dispatched.
C18_HungMailStallsLoop ==
    [][/\ crashedBy # "emailHang"
       /\ crashedBy' = "emailHang" =>
             /\ pc' = "hung"
             /\ hpc' = "idle" /\ ~toneActive'
             /\ calls'[Len(calls')].handler = "email"
             /\ UNCHANGED <<alarmState, numberOfAlarmsLeftToTrigger, adcVal,
                            nextInfoTrigger, hbVars>>]_vars

C18_Witness ==
    /\ pc = "hung" /\ crashedBy = "emailHang" /\ edge = "toAlarm"
    /\ calls[Len(calls)].severity = CRITICAL
    /\ CallsTo("buzzer", CRITICAL) = 0 /\ ~toneActive

\* C19: a failure of wpi.analogRead leaves monitor(): the loop ends in that
\* cycle, the cycle does not change alarmState or the counter, and no
\* CRITICAL or heartbeat is dispatched for it or after it.
C19_ReadFailureIsFatal ==
    [][/\ crashedBy # "analogRead"
       /\ crashedBy' = "analogRead" =>
             /\ pc = "read" /\ pc' = "crashed"
             /\ calls' = << >>
             /\ UNCHANGED <<alarmState, numberOfAlarmsLeftToTrigger, adcVal,
                            statusMsg, nextInfoTrigger, hbVars>>]_vars

C19_Witness ==
    /\ pc = "crashed" /\ crashedBy = "analogRead" /\ alarmState = "ALARM"
    /\ calls = << >>

\* C20: for N >= 1, between cycles the counter is in [1, N] while the state
\* is OK and in [0, N-1] while it is ALARM, it is 0 right after the
\* OK->ALARM edge and N right after the ALARM->OK edge; alarmState is only
\* ever OK or ALARM.
C20_CounterRangeByState ==
    /\ InLoop => alarmState \in {"OK", "ALARM"}
    /\ (alarmNTriggers >= 1 /\ pc = "sleep") =>
          /\ alarmState = "OK" =>
                numberOfAlarmsLeftToTrigger \in 1..alarmNTriggers
          /\ alarmState = "ALARM" =>
                numberOfAlarmsLeftToTrigger \in 0..(alarmNTriggers - 1)
          /\ edge = "toAlarm" => numberOfAlarmsLeftToTrigger = 0
          /\ edge = "toOK" => numberOfAlarmsLeftToTrigger = alarmNTriggers

C20_Witness ==
    /\ pc = "sleep" /\ alarmNTriggers = 2 /\ edge = "toOK"
    /\ alarmState = "OK" /\ numberOfAlarmsLeftToTrigger = 2
====
